---- MODULE Spec2Model ----
(***************************************************************************)
(* A model of toru's index-referenced task tree (src/tree.rs, src/task.rs).*)
(*                                                                         *)
(* The tree is a flat vector of tasks addressed by position plus a cursor  *)
(* `ptr`.  Indices are 0-based as in the source; the TLA+ sequence that    *)
(* holds the vector is 1-based, so the task at index i is tasks[i + 1].    *)
(* Option<usize> is modelled as a sequence of length 0 (None) or 1 (Some). *)
(* Task records hold parent, name, due, status and children; no operation   *)
(* of the tree reads or writes name and due.  The ghost                    *)
(* variable `loc` follows node identity through an operation: loc[i + 1]   *)
(* is where the task that was at index i when the operation was called is  *)
(* now (Some(index)), or None once it has been removed.                    *)
(*                                                                         *)
(* add, ascend and descend are single steps.  complete and delete run      *)
(* their while loop one iteration per step, so that their work lists are   *)
(* part of the state.  A Rust panic (index out of bounds, unwrap on None,  *)
(* unreachable!()) ends the run in the absorbing state pc = "panic".       *)
(***************************************************************************)
EXTENDS Integers, Sequences, FiniteSets, TLC

VARIABLES
    tree,     \* the Tree value: [ptr, tasks]
    pc,       \* "idle" | "complete" | "delete" | "done" | "panic"
    stack,    \* the work list `stack` of complete / delete
    cptr,     \* the local `ptr` of complete (position in its work list)
    op,       \* ghost: the operation in progress or just returned
    arg,      \* ghost: the index argument of that operation
    before,   \* ghost: the Tree value the operation was called with
    loc,      \* ghost: where each task of `before` is now
    held,     \* a Task value in a caller's hands, outside any tree, with
              \* (ghost) the value it was made from, by what, with what input
    abs,      \* ghost: the tree keyed by node identity, run side by side
    tui,      \* the terminal UI: the channel, the consumer's State and App,
              \* and (ghost) the serial numbers of the keys sent and taken
    cli       \* the line-based CLI: the command and number typed last, and
              \* what was reported for them

vars == <<tree, pc, stack, cptr, op, arg, before, loc, held, abs, tui, cli>>

\* The variables of a run of the tree operations
treevars == <<tree, pc, stack, cptr, op, arg, before, loc>>

\* Largest number of tasks the vector may hold (add is not offered beyond
\* it): for a caller that passes any index at all (Spec), and for a caller
\* that passes only what nth_child returned (SpecConforming), whose runs are
\* far fewer and are followed one task further.
MaxTasks == 4
MaxTasksConforming == 5

\* The same for a conforming caller that adds, moves and deletes and never
\* completes (SpecNoComplete): one task further again.
MaxTasksNoComplete == 6

\* Cap on the length of the work list of complete / delete.  A walk that
\* pushes every task of the tree once stays below it.
MaxStack == MaxTasksConforming + 1

\* Longest children list of a task built outside a tree (SpecTask)
MaxChildren == 3

\* Most nodes ever created in a side-by-side run (SpecRefinement)
MaxNodes == 4

\* The terminal UI (SpecTui): keys the keyboard thread sends in a run, size
\* changes the resize thread reports, events waiting in the channel, tasks
\* in the tree, characters in the input buffer
MaxKeys == 7
MaxResizes == 1
MaxQueue == 2
MaxTasksTui == 3
MaxBuffer == 1

\* Iterations of delete's loop after which a run is taken to go on for ever
MaxLoop == 16

\* The line-based CLI (SpecCli): tasks in the tree, largest number typed
MaxTasksCli == 4
MaxTyped == 4

\* Bits of a usize on the narrowest targets (16; wider ones have 32 and 64)
UsizeBits == 16

---------------------------------------------------------------------------
\* Option<usize>
None == <<>>
Some(x) == <<x>>

\* Task::new
TaskNew ==
    [parent |-> None, name |-> "Root", due |-> None, status |-> "Pending",
     children |-> <<>>]

set_name(t, name) == [t EXCEPT !.name = name]

set_due(t, date) == [t EXCEPT !.due = Some(date)]

\* A set_parent that keeps the parent the task came with
set_parent_keep(t, parent_index) == t

set_parent(t, parent_index) == [t EXCEPT !.parent = Some(parent_index)]

\* A complete that flips the status instead of setting it
task_toggle(t) ==
    [t EXCEPT !.status = IF @ = "Complete" THEN "Pending" ELSE "Complete"]

task_complete(t) == [t EXCEPT !.status = "Complete"]

is_complete(t) == t.status = "Complete"

add_child(t, child_index) ==
    [t EXCEPT !.children = Append(@, child_index)]

\* A remove_child that stops at the first occurrence
remove_child_first(t, child_index) ==
    [t EXCEPT !.children =
        IF \E k \in DOMAIN @ : @[k] = child_index
          THEN LET first == CHOOSE k \in DOMAIN @ :
                               /\ @[k] = child_index
                               /\ \A j \in 1..(k - 1) : @[j] # child_index
               IN  SubSeq(@, 1, first - 1) \o SubSeq(@, first + 1, Len(@))
          ELSE @]

remove_child(t, child_index) ==
    [t EXCEPT !.children = SelectSeq(@, LAMBDA index : index # child_index)]

replace_child(t, old_child, new_child) ==
    [t EXCEPT !.children =
        [k \in DOMAIN @ |-> IF @[k] = old_child THEN new_child ELSE @[k]]]

is_child(t, id) == \E k \in DOMAIN t.children : t.children[k] = id

---------------------------------------------------------------------------
\* Tree::new
TreeNew == [ptr |-> 0, tasks |-> <<TaskNew>>]

len(tr) == Len(tr.tasks)

\* Tree::task: Some(task) when id is in range (valid(tr, id)), else None
valid(tr, id) == id >= 0 /\ id < len(tr)
task(tr, id) == tr.tasks[id + 1]

at_root(tr) == tr.ptr = 0

\* Tree::current indexes the vector: it panics when ptr is out of range
current_panics(tr) == ~valid(tr, tr.ptr)
current(tr) == tr.tasks[tr.ptr + 1]

set_ptr(tr, idx) == [tr EXCEPT !.ptr = idx]

replace_task(tr, task_id, new_task) ==
    [tr EXCEPT !.tasks[task_id + 1] = new_task]

replace_current(tr, new_task) == replace_task(tr, tr.ptr, new_task)

\* A swap_remove that is one slot off: the last element lands one place
\* before the removed one
swap_remove_one_off(s, index) ==
    LET last == Len(s)
    IN  [k \in 1..(last - 1) |-> IF k = index THEN s[last] ELSE s[k]]

\* Vec::swap_remove(index): the last element takes the place of the removed
swap_remove(s, index) ==
    LET last == Len(s)
    IN  [k \in 1..(last - 1) |-> IF k = index + 1 THEN s[last] ELSE s[k]]

---------------------------------------------------------------------------
\* The outcome of a fallible call: Ok(val), Err(InvalidIndex(val)), or a panic.
Ok(v) == [kind |-> "Ok", val |-> v]
Err(v) == [kind |-> "Err", val |-> v]
Panicked(v) == [kind |-> "Panic", val |-> v]

\* Children::next, run to exhaustion: the tasks of the listed indexes in
\* order; the iterator ends at the first index that is out of range.
RECURSIVE children_from(_, _, _)
children_from(tr, indexes, cur) ==
    IF cur < Len(indexes)
      THEN LET idx == indexes[cur + 1]
           IN  IF valid(tr, idx)
                 THEN <<task(tr, idx)>> \o children_from(tr, indexes, cur + 1)
                 ELSE <<>>
      ELSE <<>>

children_of(tr, t) == children_from(tr, t.children, 0)

\* Tree::children (of the current task)
children(tr) == children_of(tr, current(tr))

\* Tree::pending_children
pending_children(tr) ==
    SelectSeq(children(tr), LAMBDA child : ~is_complete(child))

\* Tree::has_pending
has_pending(tr, t) ==
    \E k \in DOMAIN children_of(tr, t) : ~is_complete(children_of(tr, t)[k])

\* Tree::nth_child: the lazy filter(..).nth(idx) over the current task's
\* child indexes.  The filter closure panics on an index that is out of range,
\* but only for the entries it examines before the idx-th pending one.
RECURSIVE nth_scan(_, _, _, _, _)
nth_scan(tr, indexes, pos, remaining, idx) ==
    IF pos > Len(indexes)
      THEN Err(idx)
      ELSE LET task_idx == indexes[pos]
           IN  IF ~valid(tr, task_idx)
                 THEN Panicked(task_idx)
                 ELSE IF is_complete(task(tr, task_idx))
                        THEN nth_scan(tr, indexes, pos + 1, remaining, idx)
                        ELSE IF remaining = 0
                               THEN Ok(task_idx)
                               ELSE nth_scan(tr, indexes, pos + 1,
                                             remaining - 1, idx)

nth_child(tr, idx) ==
    IF current_panics(tr)
      THEN Panicked(tr.ptr)
      ELSE nth_scan(tr, current(tr).children, 1, idx, idx)

---------------------------------------------------------------------------
\* The structural operations, as functions on tree values.

\* add (the caller has a valid cursor; see the action Add for the panic)
add(tr, t) ==
    LET new_task == set_parent(t, tr.ptr)
        index_of_child == len(tr)
        new_parent == add_child(current(tr), index_of_child)
    IN  replace_current([tr EXCEPT !.tasks = Append(@, new_task)], new_parent)

\* ascend, past its at_root guard and with Some(parent)
ascend(tr) == set_ptr(tr, current(tr).parent[1])

\* ascend as a whole: the at_root guard, the panics, the move
ascend_from(tr) ==
    IF at_root(tr)
      THEN Ok(tr)
      ELSE IF current_panics(tr) \/ current(tr).parent = None
             THEN Panicked(tr.ptr)
             ELSE Ok(ascend(tr))

\* A descend that moves the cursor without looking at the children list
descend_unchecked(tr, idx) == set_ptr(tr, idx)

\* descend (tree.rs calls the membership test has_child_with_index; task.rs
\* defines it under the name is_child)
descend(tr, idx) ==
    IF is_child(current(tr), idx) THEN set_ptr(tr, idx) ELSE tr

\* One iteration of complete's loop on the work-list entry idx (in range):
\* the task is marked, and its children go on the work list
\* A complete that also empties the children list of the task it marks
complete_visit_detach(tr, idx) ==
    replace_task(tr, idx, [task_complete(task(tr, idx)) EXCEPT !.children = <<>>])

complete_visit(tr, idx) == replace_task(tr, idx, task_complete(task(tr, idx)))

\* A complete that marks a task and leaves its children off the work list
complete_extend_none(st, completed_task) == st

complete_extend(st, completed_task) == st \o completed_task.children

\* A leaf branch that looks in the moved task's parent for the length the
\* vector had before the removal
delete_leaf_length_before(tr, child_index) ==
    LET child == tr.tasks[child_index + 1]
    IN  IF child.parent = None
          THEN [kind |-> "Panic", val |-> child_index]
          ELSE
    LET parent_index == child.parent[1]
    IN  IF ~(parent_index < Len(tr.tasks))
          THEN [kind |-> "Panic", val |-> parent_index]
          ELSE
    LET last == Len(tr.tasks)
        detached == [tr.tasks EXCEPT ![parent_index + 1].children =
                        SelectSeq(@, LAMBDA c : c # child_index)]
        removed == IF child_index + 1 = last
                     THEN SubSeq(detached, 1, last - 1)
                     ELSE [k \in 1..(last - 1) |->
                              IF k = child_index + 1
                                THEN detached[last] ELSE detached[k]]
        index_to_replace == last
    IN  IF child_index + 1 = last
          THEN [kind |-> "Ok", val |-> [tr EXCEPT !.tasks = removed]]
          ELSE
    LET moved == removed[child_index + 1]
    IN  IF moved.parent = None
          THEN [kind |-> "Panic", val |-> child_index]
          ELSE
    LET parent2 == moved.parent[1]
    IN  IF ~(parent2 < Len(removed))
          THEN [kind |-> "Panic", val |-> parent2]
          ELSE [kind |-> "Ok",
                val |-> [tr EXCEPT !.tasks =
                    [removed EXCEPT ![parent2 + 1].children =
                        [k \in DOMAIN @ |->
                            IF @[k] = index_to_replace
                              THEN child_index ELSE @[k]]]]]

\* The leaf branch of one iteration of delete's loop, child_index in range
\* and childless.  Yields Ok(tree) or the panic it runs into.
delete_leaf(tr, child_index) ==
    LET child == task(tr, child_index)
    IN  IF child.parent = None
          THEN Panicked(child_index)                       \* unreachable!()
          ELSE
    LET parent_index == child.parent[1]
    IN  IF ~valid(tr, parent_index)
          THEN Panicked(parent_index)                      \* unreachable!()
          ELSE
    LET new_parent == remove_child(task(tr, parent_index), child_index)
        tr1 == replace_task(tr, parent_index, new_parent)
        tr2 == [tr1 EXCEPT !.tasks = swap_remove(@, child_index)]
        index_to_replace == len(tr2)
    IN  IF ~valid(tr2, child_index)
          THEN Ok(tr2)                    \* the last task was the one removed
          ELSE
    LET moved == task(tr2, child_index)
    IN  IF moved.parent = None
          THEN Panicked(child_index)                       \* unwrap on None
          ELSE
    LET parent2 == moved.parent[1]
    IN  IF ~valid(tr2, parent2)
          THEN Panicked(parent2)                           \* unreachable!()
          ELSE Ok(replace_task(tr2, parent2,
                    replace_child(task(tr2, parent2),
                                  index_to_replace, child_index)))

---------------------------------------------------------------------------
\* The state machine.

\* Every task is where it was.
Identity(tr) == [k \in 1..len(tr) |-> Some(k - 1)]

\* The bookkeeping of one swap_remove(child_index) on a vector whose last
\* index is last: the task at child_index is gone, the one at last took its
\* place.
relocate(l, child_index, last) ==
    [k \in DOMAIN l |->
        IF l[k] = Some(child_index) THEN None
        ELSE IF l[k] = Some(last) THEN Some(child_index)
        ELSE l[k]]

\* No task in the caller's hands but a fresh one
Fresh == [task |-> TaskNew, from |-> TaskNew, by |-> "new", with |-> <<>>]

\* The identity-keyed tree of a new arena: node 0 is the root, the cursor
\* is on it, and slot 0 of the vector holds node 0
AbsNew ==
    [cursor |-> 0,
     nodes |-> <<[parent |-> None, status |-> "Pending", children |-> <<>>,
                  alive |-> TRUE]>>,
     ids |-> <<0>>]

\* List::new with the title and items of a tree whose cursor has no
\* pending children, App::new, the empty channel, State::Normal
TuiNew ==
    [queue |-> <<>>, sent |-> 0, resizes |-> 0, log |-> <<>>,
     state |-> "Normal", loop |-> "normal",
     list |-> [index |-> 0, title |-> TaskNew.name, items |-> <<>>],
     buffer |-> <<>>, cursor_offset |-> 0]

\* Nothing happens outside the tree
TreeOnly == UNCHANGED <<held, abs, tui, cli>>

Init ==
    /\ held = Fresh
    /\ abs = AbsNew
    /\ tui = TuiNew
    /\ cli = [command |-> "none", typed |-> 0, report |-> "none"]
    /\ tree = TreeNew
    /\ pc = "idle"
    /\ stack = <<>>
    /\ cptr = 0
    /\ op = "none"
    /\ arg = 0
    /\ before = TreeNew
    /\ loc = Identity(TreeNew)

\* An operation returns the tree new_tree to its caller.
Finish(o, a, new_tree) ==
    /\ tree' = new_tree
    /\ pc' = "done"
    /\ op' = o
    /\ arg' = a
    /\ stack' = <<>>
    /\ cptr' = 0
    /\ UNCHANGED <<before, loc>>

\* An operation panics: the process is gone, the tree stays as it was left.
Abort(o, a) ==
    /\ pc' = "panic"
    /\ op' = o
    /\ arg' = a
    /\ UNCHANGED <<tree, stack, cptr, before, loc>>

\* The caller takes the returned tree and is ready for the next operation.
Return ==
    /\ pc = "done"
    /\ pc' = "idle"
    /\ op' = "none"
    /\ arg' = 0
    /\ before' = tree
    /\ loc' = Identity(tree)
    /\ stack' = <<>>
    /\ cptr' = 0
    /\ UNCHANGED tree

\* The tasks a caller hands to add: fresh, pending and childless, with no
\* parent set or with one the caller chose (cli.rs sets the cursor, the tests
\* of tree.rs set indexes of their own)
NewTasks == {TaskNew, set_parent(TaskNew, 0), set_parent(TaskNew, 1)}

\* add(tree, task)
Add(max) ==
    /\ pc = "idle"
    /\ len(tree) < max
    /\ IF current_panics(tree)
         THEN Abort("add", 0)
         ELSE \E t \in NewTasks : Finish("add", 0, add(tree, t))

Ascend ==
    /\ pc = "idle"
    /\ IF at_root(tree)
         THEN Finish("ascend", 0, tree)
         ELSE IF current_panics(tree) \/ current(tree).parent = None
                THEN Abort("ascend", 0)
                ELSE Finish("ascend", 0, ascend(tree))

Descend(idx) ==
    /\ pc = "idle"
    /\ IF current_panics(tree)
         THEN Abort("descend", idx)
         ELSE Finish("descend", idx, descend(tree, idx))

\* A complete without the root guard
CompleteUnguarded(idx) ==
    /\ pc = "idle"
    /\ pc' = "complete"
    /\ op' = "complete"
    /\ arg' = idx
    /\ stack' = <<idx>>
    /\ cptr' = 0
    /\ UNCHANGED <<tree, before, loc>>

\* complete: the root guard, else the work list starts as [idx]
Complete(idx) ==
    /\ pc = "idle"
    /\ IF idx = 0
         THEN Finish("complete", idx, tree)
         ELSE /\ pc' = "complete"
              /\ op' = "complete"
              /\ arg' = idx
              /\ stack' = <<idx>>
              /\ cptr' = 0
              /\ UNCHANGED <<tree, before, loc>>

\* An iteration of complete that marks the parent of the task as well
CompleteStepUpward ==
    /\ pc = "complete"
    /\ LET idx == stack[cptr + 1]
       IN  IF ~valid(tree, idx)
             THEN Abort("complete", arg)
             ELSE LET new_stack == stack \o task(tree, idx).children
                      marked == replace_task(tree, idx,
                                             task_complete(task(tree, idx)))
                      up == task(tree, idx).parent
                  IN  /\ Len(new_stack) <= MaxStack
                      /\ tree' = IF up # None /\ valid(tree, up[1])
                                   THEN replace_task(
                                            marked, up[1],
                                            task_complete(task(marked, up[1])))
                                   ELSE marked
                      /\ stack' = new_stack
                      /\ cptr' = cptr + 1
                      /\ pc' = IF cptr + 1 < Len(new_stack)
                                 THEN "complete" ELSE "done"
                      /\ UNCHANGED <<op, arg, before, loc>>

\* One iteration of `while ptr < stack.len()` in complete
CompleteStep ==
    /\ pc = "complete"
    /\ LET idx == stack[cptr + 1]
       IN  IF ~valid(tree, idx)
             THEN Abort("complete", arg)
             ELSE LET new_stack == complete_extend(stack, task(tree, idx))
                  IN  /\ Len(new_stack) <= MaxStack
                      /\ tree' = complete_visit(tree, idx)
                      /\ stack' = new_stack
                      /\ cptr' = cptr + 1
                      /\ pc' = IF cptr + 1 < Len(new_stack)
                                 THEN "complete" ELSE "done"
                      /\ UNCHANGED <<op, arg, before, loc>>

\* delete: the root guard, else the work list starts as [idx]
Delete(idx) ==
    /\ pc = "idle"
    /\ IF idx = 0
         THEN Finish("delete", idx, tree)
         ELSE /\ pc' = "delete"
              /\ op' = "delete"
              /\ arg' = idx
              /\ stack' = <<idx>>
              /\ UNCHANGED <<tree, cptr, before, loc>>

\* A delete that puts a cursor it left out of range back on the root
DeleteNextRelocating(new_tree, new_stack, new_loc) ==
    /\ tree' = [new_tree EXCEPT !.ptr = IF valid(new_tree, @) THEN @ ELSE 0]
    /\ stack' = new_stack
    /\ loc' = new_loc
    /\ pc' = IF new_stack = <<>> THEN "done" ELSE "delete"
    /\ UNCHANGED <<cptr, op, arg, before>>

\* The work list of delete after one iteration, and where the loop goes then
DeleteNext(new_tree, new_stack, new_loc) ==
    /\ tree' = new_tree
    /\ stack' = new_stack
    /\ loc' = new_loc
    /\ pc' = IF new_stack = <<>> THEN "done" ELSE "delete"
    /\ UNCHANGED <<cptr, op, arg, before>>

top == stack[Len(stack)]
pop == SubSeq(stack, 1, Len(stack) - 1)

\* delete, iteration on an index with no task behind it: pop and go on
DeleteSkip ==
    /\ pc = "delete"
    /\ ~valid(tree, top)
    /\ DeleteNext(tree, pop, loc)

\* delete, iteration on a task with children: push them
DeleteDescend ==
    /\ pc = "delete"
    /\ valid(tree, top)
    /\ task(tree, top).children # <<>>
    /\ Len(stack \o task(tree, top).children) <= MaxStack
    /\ DeleteNext(tree, stack \o task(tree, top).children, loc)

\* delete, iteration on a childless task: detach, swap_remove, repair, pop
DeleteRemove ==
    /\ pc = "delete"
    /\ valid(tree, top)
    /\ task(tree, top).children = <<>>
    /\ LET r == delete_leaf(tree, top)
       IN  IF r.kind = "Panic"
             THEN Abort("delete", arg)
             ELSE DeleteNext(r.val, pop, relocate(loc, top, len(tree) - 1))

\* Any index at all, in range or one past the end
AnyIndex == 0..len(tree)

Next ==
    \/ Add(MaxTasks) /\ TreeOnly
    \/ Ascend /\ TreeOnly
    \/ \E idx \in AnyIndex : Descend(idx) /\ TreeOnly
    \/ \E idx \in AnyIndex : Complete(idx) /\ TreeOnly
    \/ \E idx \in AnyIndex : Delete(idx) /\ TreeOnly
    \/ CompleteStep /\ TreeOnly
    \/ DeleteSkip /\ TreeOnly
    \/ DeleteDescend /\ TreeOnly
    \/ DeleteRemove /\ TreeOnly
    \/ Return /\ TreeOnly

Spec == Init /\ [][Next]_vars

\* The front ends (cli.rs verify_index_and, tui.rs, curses.rs) pass complete,
\* delete and descend only what nth_child returned for a typed position; an
\* InvalidIndex error leaves the tree alone and calls nothing.
ViaNthChild(f, position) ==
    /\ pc = "idle"
    /\ LET r == nth_child(tree, position)
       IN  /\ r.kind # "Err"
           /\ IF r.kind = "Panic"
                THEN Abort("nth_child", position)
                ELSE CASE f = "descend" -> Descend(r.val)
                       [] f = "complete" -> Complete(r.val)
                       [] f = "delete" -> Delete(r.val)

Positions == 0..(MaxTasksConforming - 1)

NextConforming ==
    \/ Add(MaxTasksConforming) /\ TreeOnly
    \/ Ascend /\ TreeOnly
    \/ \E position \in Positions : ViaNthChild("descend", position) /\ TreeOnly
    \/ \E position \in Positions : ViaNthChild("complete", position) /\ TreeOnly
    \/ \E position \in Positions : ViaNthChild("delete", position) /\ TreeOnly
    \/ CompleteStep /\ TreeOnly
    \/ DeleteSkip /\ TreeOnly
    \/ DeleteDescend /\ TreeOnly
    \/ DeleteRemove /\ TreeOnly
    \/ Return /\ TreeOnly

SpecConforming == Init /\ [][NextConforming]_vars

\* A session of the same front ends in which the user never completes a task
NextNoComplete ==
    \/ Add(MaxTasksNoComplete) /\ TreeOnly
    \/ Ascend /\ TreeOnly
    \/ \E position \in Positions : ViaNthChild("descend", position) /\ TreeOnly
    \/ \E position \in Positions : ViaNthChild("delete", position) /\ TreeOnly
    \/ DeleteSkip /\ TreeOnly
    \/ DeleteDescend /\ TreeOnly
    \/ DeleteRemove /\ TreeOnly
    \/ Return /\ TreeOnly

SpecNoComplete == Init /\ [][NextNoComplete]_vars

---------------------------------------------------------------------------
\* The transformations of task.rs applied to a task outside any tree, starting
\* from Task::new().

ParentInputs == 0..2
NameInputs == {"Root", "a"}
DueInputs == {1}
ChildInputs == 0..2

Transformed(t, b, w) ==
    /\ held' = [task |-> t, from |-> held.task, by |-> b, with |-> w]
    /\ UNCHANGED <<treevars, abs, tui, cli>>

TaskSetParent == \E p \in ParentInputs :
    Transformed(set_parent(held.task, p), "set_parent", <<p>>)

TaskSetName == \E n \in NameInputs :
    Transformed(set_name(held.task, n), "set_name", <<n>>)

TaskSetDue == \E d \in DueInputs :
    Transformed(set_due(held.task, d), "set_due", <<d>>)

TaskComplete == Transformed(task_complete(held.task), "complete", <<>>)

TaskAddChild == \E i \in ChildInputs :
    /\ Len(held.task.children) < MaxChildren
    /\ Transformed(add_child(held.task, i), "add_child", <<i>>)

TaskRemoveChild == \E i \in ChildInputs :
    Transformed(remove_child(held.task, i), "remove_child", <<i>>)

TaskReplaceChild == \E old \in ChildInputs, new \in ChildInputs :
    Transformed(replace_child(held.task, old, new), "replace_child",
                <<old, new>>)

NextTask ==
    \/ TaskSetParent
    \/ TaskSetName
    \/ TaskSetDue
    \/ TaskComplete
    \/ TaskAddChild
    \/ TaskRemoveChild
    \/ TaskReplaceChild

SpecTask == Init /\ [][NextTask]_vars

---------------------------------------------------------------------------
\* Vocabulary of the properties.

\* Between operations: before a call and after a return.
AtRest == pc \in {"idle", "done"}

Indexes(tr) == 0..(len(tr) - 1)

\* How often index i is listed in a children list
Occurrences(cs, i) == Cardinality({k \in DOMAIN cs : cs[k] = i})

\* The indexes of tr reachable from the set s along children lists
RECURSIVE Closure(_, _)
Closure(tr, s) ==
    LET more == s \cup {c \in Indexes(tr) :
                          \E i \in s : is_child(task(tr, i), c)}
    IN  IF more = s THEN s ELSE Closure(tr, more)

\* idx and its transitive descendants
Subtree(tr, idx) == Closure(tr, {idx})

\* The indexes of `before` whose tasks are no longer in the vector
Removed == {i \in Indexes(before) : loc[i + 1] = None}

\* A delete / complete of a task that exists and is not the root has returned
Returned(o) ==
    /\ pc = "done"
    /\ op = o
    /\ arg # 0
    /\ valid(before, arg)

\* (C1) parent and children lists agree
BackReference(tr) ==
    \A i \in Indexes(tr) \ {0} :
        /\ task(tr, i).parent # None
        /\ valid(tr, task(tr, i).parent[1])
        /\ \A p \in Indexes(tr) :
              Occurrences(task(tr, p).children, i) =
                  IF task(tr, i).parent = Some(p) THEN 1 ELSE 0

\* (C10) every children entry is an index into the vector
ChildrenInRange(tr) ==
    \A p \in Indexes(tr) :
        \A k \in DOMAIN task(tr, p).children :
            valid(tr, task(tr, p).children[k])

\* C1: between operations, every task but the root has a parent field that
\* is a valid index, is listed exactly once in that parent's children and in
\* no other children list.
C1_BackReference == AtRest => BackReference(tree)

\* C2: when delete(idx) returns (idx valid, not the root), the tasks removed
\* are exactly idx and its transitive descendants at call time.
C2_DeleteExactlySubtree ==
    Returned("delete") => Removed = Subtree(before, arg)

\* C3: when delete(idx) returns, the node count has dropped by one plus the
\* number of transitive descendants idx had at call time.
C3_DeleteCount ==
    Returned("delete") =>
        len(tree) = len(before) - Cardinality(Subtree(before, arg))

\* C4: between operations the cursor is a valid index.
C4_CursorValid == AtRest => valid(tree, tree.ptr)

\* C5: with a conforming caller nothing panics: no operation, and neither
\* current() nor nth_child(k) on the tree the caller holds.
C5_NoPanic ==
    /\ pc # "panic"
    /\ AtRest =>
          /\ ~current_panics(tree)
          /\ \A k \in Indexes(tree) : nth_child(tree, k).kind # "Panic"

\* C6: when complete(idx) returns, idx and all its transitive descendants are
\* Complete, so pending_children() is empty with the cursor on idx and does
\* not list idx with the cursor on a task that has idx as a child.
C6_CompleteCascade ==
    Returned("complete") =>
        /\ \A i \in Subtree(tree, arg) : is_complete(task(tree, i))
        /\ pending_children(set_ptr(tree, arg)) = <<>>
        /\ \A p \in Indexes(tree) :
              is_child(task(tree, p), arg) =>
                  \A k \in DOMAIN pending_children(set_ptr(tree, p)) :
                      pending_children(set_ptr(tree, p))[k] # task(tree, arg)

\* complete(idx) has returned, called with the cursor on the parent of idx
\* while a descendant of idx was still Pending.
C6_Witness ==
    /\ Returned("complete")
    /\ valid(before, before.ptr)
    /\ is_child(current(before), arg)
    /\ \E i \in Subtree(before, arg) \ {arg} : ~is_complete(task(before, i))

\* C9: the vector is never empty, index 0 is the root that Tree::new made
\* (never moved, never removed) and it has no parent.
C9_Root ==
    /\ len(tree) >= 1
    /\ task(tree, 0).parent = None
    /\ loc[1] = Some(0)

\* delete has returned after removing a task and moving another into its slot.
C9_Witness ==
    /\ pc = "done"
    /\ op = "delete"
    /\ Removed # {}
    /\ \E i \in Indexes(before) : loc[i + 1] \notin {None, Some(i)}

\* C10: between operations every children entry is a valid index.
C10_ChildrenInRange == AtRest => ChildrenInRange(tree)

\* Once complete or delete is in its loop, the thread runs the next iteration.
Loops ==
    /\ CompleteStep \/ DeleteSkip \/ DeleteDescend \/ DeleteRemove
    /\ TreeOnly

FairConforming == SpecConforming /\ WF_vars(Loops)

\* The model follows delete no further: its next push passes MaxStack.
DeleteAtCap ==
    /\ pc = "delete"
    /\ valid(tree, top)
    /\ Len(stack \o task(tree, top).children) > MaxStack

\* C7: delete terminates: once in its loop, it comes out of it (by returning
\* with an empty work stack, or at worst by a panic).  Runs the model cuts
\* off at MaxStack are not counted against it.
C7_DeleteTerminates ==
    (pc = "delete") ~> (pc \in {"done", "panic"} \/ DeleteAtCap)

\* C8: complete's walk stops once no unvisited descendant remains: while it
\* runs, some entry still to visit has not been visited in this walk.
C8_CompleteStops ==
    pc = "complete" =>
        \E k \in (cptr + 1)..Len(stack) :
            \A j \in 1..cptr : stack[j] # stack[k]

\* C11: when add returns, called with n tasks and the cursor on c, there are
\* n + 1 tasks, the new one is at index n with parent Some(c) whatever parent
\* the caller had set, n is the last entry of the children of c after the
\* entries c had, and the cursor is still c; on a fresh tree that is two
\* tasks, the new one with parent Some(0), and the root's children [1].
C11_AddPostcondition ==
    (pc = "done" /\ op = "add") =>
        LET n == len(before)
            c == before.ptr
        IN  /\ len(tree) = n + 1
            /\ task(tree, n).parent = Some(c)
            /\ task(tree, c).children = Append(task(before, c).children, n)
            /\ tree.ptr = c
            /\ before = TreeNew =>
                  /\ len(tree) = 2
                  /\ task(tree, 1).parent = Some(0)
                  /\ task(tree, 0).children = <<1>>

\* add has returned, called with the cursor off the root on a task that
\* already had a child.
C11_Witness ==
    /\ pc = "done"
    /\ op = "add"
    /\ before.ptr # 0
    /\ current(before).children # <<>>
    /\ len(tree) = len(before) + 1

\* The non-Complete direct children of the cursor: the entries of its children
\* list, in insertion order, that are tasks of the vector and not Complete
PendingEntries(tr) ==
    SelectSeq(current(tr).children,
              LAMBDA i : valid(tr, i) /\ ~is_complete(task(tr, i)))

\* C12: when add returns, called on a tree whose pending_children() listed n
\* tasks, pending_children() lists n + 1 tasks, the last of them (position n)
\* is the new task, and nth_child(n) is Ok(index the new task was given).
C12_AddResolve ==
    (pc = "done" /\ op = "add") =>
        LET n == Len(pending_children(before))
        IN  /\ Len(pending_children(tree)) = n + 1
            /\ pending_children(tree)[n + 1] = task(tree, len(before))
            /\ nth_child(tree, n) = Ok(len(before))

\* C13: between operations, with the cursor on a task, nth_child(k) for k
\* below the number of non-Complete direct children is Ok(the k-th of them).
C13_NthChildResolves ==
    (AtRest /\ valid(tree, tree.ptr)) =>
        \A k \in 0..(Len(PendingEntries(tree)) - 1) :
            nth_child(tree, k) = Ok(PendingEntries(tree)[k + 1])

\* C14: between operations, with the cursor on a task, nth_child(k) is
\* Err(InvalidIndex(k)) exactly when k is at least the number of non-Complete
\* direct children.  (nth_child borrows the tree immutably: there is no tree
\* after it other than the one it was called on.)
C14_NthChildInvalidIndex ==
    (AtRest /\ valid(tree, tree.ptr)) =>
        \A k \in Positions :
            (nth_child(tree, k) = Err(k)) <=> (k >= Len(PendingEntries(tree)))

\* C15: when descend(idx) returns, the cursor is idx if idx is an entry of the
\* children list of the task the cursor was on (whatever the status of that
\* child), and is what it was otherwise; no task has changed.
C15_Descend ==
    (pc = "done" /\ op = "descend") =>
        LET cs == current(before).children
        IN  /\ tree.tasks = before.tasks
            /\ tree.ptr = IF \E k \in DOMAIN cs : cs[k] = arg
                             THEN arg ELSE before.ptr

\* descend has moved the cursor onto a child that is Complete.
C15_Witness ==
    /\ pc = "done"
    /\ op = "descend"
    /\ tree.ptr = arg
    /\ before.ptr # arg
    /\ valid(tree, arg)
    /\ is_complete(task(tree, arg))

\* C16: when ascend returns, called with the cursor on the root the tree is
\* as it was; otherwise no task has changed and the cursor is on the parent
\* of the task it was on: a task that lists the old cursor among its children.
C16_Ascend ==
    (pc = "done" /\ op = "ascend") =>
        /\ tree.tasks = before.tasks
        /\ IF before.ptr = 0
             THEN tree = before
             ELSE /\ tree.ptr = current(before).parent[1]
                  /\ valid(tree, tree.ptr)
                  /\ is_child(task(tree, tree.ptr), before.ptr)

\* C17: between operations, with the cursor on a task c, for every entry idx
\* of the children list of c, ascend(descend(tree, idx)) has the cursor on c.
C17_DescendAscend ==
    (AtRest /\ valid(tree, tree.ptr)) =>
        \A k \in DOMAIN current(tree).children :
            LET r == ascend_from(descend(tree, current(tree).children[k]))
            IN  r.kind = "Ok" /\ r.val.ptr = tree.ptr

\* C18: complete(tree, 0) and delete(tree, 0) return at once, and return the
\* tree they were given: same cursor, same tasks.
C18_RootGuard ==
    (op \in {"complete", "delete"} /\ arg = 0) =>
        (pc = "done" /\ tree = before)

\* delete(tree, 0) has returned on a tree with tasks under the root and the
\* cursor off the root.
C18_Witness ==
    /\ pc = "done"
    /\ op = "delete"
    /\ arg = 0
    /\ task(tree, 0).children # <<>>
    /\ tree.ptr # 0

\* C19: a task that was Complete when the operation was called is Complete
\* for as long as it is in the vector, at whatever index it is now; and an
\* operation other than complete leaves every task's status as it was.
C19_StatusMonotonic ==
    \A i \in Indexes(before) :
        loc[i + 1] # None =>
            LET j == loc[i + 1][1]
            IN  /\ valid(tree, j)
                /\ is_complete(task(before, i)) => is_complete(task(tree, j))
                /\ op # "complete" =>
                      task(tree, j).status = task(before, i).status

\* delete has returned after moving a Complete task to another index.
C19_Witness ==
    /\ pc = "done"
    /\ op = "delete"
    /\ \E i \in Indexes(before) :
          /\ is_complete(task(before, i))
          /\ loc[i + 1] \notin {None, Some(i)}

\* C20: delete never writes the cursor: from the call to the return (or the
\* panic) the cursor has the value it was called with.
C20_DeleteKeepsCursor == op = "delete" => tree.ptr = before.ptr

\* delete has returned after removing the task the cursor was on.
C20_Witness ==
    /\ pc = "done"
    /\ op = "delete"
    /\ valid(before, before.ptr)
    /\ loc[before.ptr + 1] = None

\* The indexes of the tasks pending_children() yields, in order: the entries
\* of the cursor's children list that Children::next gets to (all of them up
\* to the first that is out of range) and that are not Complete
PendingListed(tr) ==
    SelectSeq(SubSeq(current(tr).children, 1, Len(children(tr))),
              LAMBDA i : ~is_complete(task(tr, i)))

\* C21: when complete(x) returns, x a pending child of the cursor's task,
\* pending_children() is what it was with x taken out: the other pending
\* children are all still listed, in the same order.
C21_CompleteRemovesOne ==
    ( /\ Returned("complete")
      /\ valid(before, before.ptr)
      /\ is_child(current(before), arg)
      /\ ~is_complete(task(before, arg)) ) =>
        PendingListed(tree) =
            SelectSeq(PendingListed(before), LAMBDA i : i # arg)

\* A step of delete that removes the task at the top of the work stack and
\* moves the task at the last position into its slot
RelocationStep ==
    /\ pc = "delete"
    /\ len(tree') = len(tree) - 1
    /\ top # len(tree) - 1

\* C24: after a removal step of delete that moves the task at the last
\* position L into the freed slot c, the moved task's parent lists c where it
\* listed L and lists L no more, every child of the moved task has the parent
\* field Some(c), and no task has a parent field Some(L).
C24_RelocationRepair ==
    [][RelocationStep =>
        LET c == top
            L == len(tree')
            moved == task(tree', c)
        IN  /\ moved.parent # None
            /\ valid(tree', moved.parent[1])
            /\ LET was == SelectSeq(task(tree, moved.parent[1]).children,
                                    LAMBDA i : i # c)
                   is == task(tree', moved.parent[1]).children
               IN  /\ Len(is) = Len(was)
                   /\ \A k \in DOMAIN was :
                         is[k] = IF was[k] = L THEN c ELSE was[k]
                   /\ Occurrences(is, L) = 0
                   /\ Occurrences(is, c) = 1
            /\ \A k \in DOMAIN moved.children :
                  /\ valid(tree', moved.children[k])
                  /\ task(tree', moved.children[k]).parent = Some(c)
            /\ \A i \in Indexes(tree') : task(tree', i).parent # Some(L)
    ]_vars

\* C25: when delete(idx) returns and the cursor's task was not in the subtree
\* of idx, the cursor is a valid index and is on the task it was on.
C25_CursorIdentity ==
    ( /\ Returned("delete")
      /\ valid(before, before.ptr)
      /\ before.ptr \notin Subtree(before, arg) ) =>
        /\ valid(tree, tree.ptr)
        /\ loc[before.ptr + 1] = Some(tree.ptr)

\* Following parent fields from index i reaches index 0 in at most n steps
RECURSIVE ReachesRoot(_, _, _)
ReachesRoot(tr, i, n) ==
    IF i = 0 THEN TRUE
    ELSE IF n = 0 \/ task(tr, i).parent = None
              \/ ~valid(tr, task(tr, i).parent[1]) THEN FALSE
    ELSE ReachesRoot(tr, task(tr, i).parent[1], n - 1)

\* C26: between operations the children lists form a tree rooted at index 0:
\* no task is listed by itself or by one of its descendants, and the parent
\* fields lead from every task to index 0 in fewer steps than there are tasks.
C26_Acyclic ==
    AtRest =>
        \A i \in Indexes(tree) :
            /\ \A d \in Subtree(tree, i) : ~is_child(task(tree, d), i)
            /\ ReachesRoot(tree, i, len(tree) - 1)

\* The indexes (at call time) of the tasks that are at index j now
Origin(j) == {i \in Indexes(before) : loc[i + 1] = Some(j)}

\* C27: in every removal step of delete the task removed has an empty
\* children list and all the descendants it had at call time are gone
\* already; idx itself goes in the step that ends the delete, so that when
\* delete returns idx has been removed.
C27_BottomUp ==
    [][pc = "delete" =>
        /\ len(tree') < len(tree) =>
              \A i \in Origin(top) :
                  /\ task(tree, top).children = <<>>
                  /\ \A d \in Subtree(before, i) \ {i} : loc[d + 1] = None
                  /\ i = arg => pc' = "done"
        /\ pc' = "done" => loc'[arg + 1] = None
    ]_vars

\* C28: when delete(idx) returns, every task that is still in the vector has
\* the status it had, the parent field names the task that was its parent
\* (at that task's index of now), and the children list names the children
\* that are still in the vector (at their indexes of now) in the same order.
C28_SurvivorsUnchanged ==
    Returned("delete") =>
        \A i \in Indexes(before) :
            loc[i + 1] # None =>
                LET was == task(before, i)
                    is == task(tree, loc[i + 1][1])
                    kept == SelectSeq(was.children,
                               LAMBDA c : valid(before, c) /\ loc[c + 1] # None)
                IN  /\ is.status = was.status
                    /\ IF was.parent = None
                         THEN is.parent = None
                         ELSE /\ valid(before, was.parent[1])
                              /\ is.parent = loc[was.parent[1] + 1]
                    /\ is.children = [k \in DOMAIN kept |-> loc[kept[k] + 1][1]]

\* C30: between operations, a task for which has_pending is false has no
\* Pending task among its transitive descendants.
C30_HasPendingSubtree ==
    AtRest =>
        \A i \in Indexes(tree) :
            ~has_pending(tree, task(tree, i)) =>
                \A d \in Subtree(tree, i) \ {i} : is_complete(task(tree, d))

---------------------------------------------------------------------------
\* The identity-keyed tree.  A node keeps its identity for life: delete
\* removes the subtree and renumbers nothing, and the cursor is a node.

AbsNode(a, id) == a.nodes[id + 1]

\* The ordered pending children of the cursor
AbsPending(a) ==
    SelectSeq(AbsNode(a, a.cursor).children,
              LAMBDA c : AbsNode(a, c).status = "Pending")

\* Node j is node id or below it (at most n parent links away)
RECURSIVE AbsUnder(_, _, _, _)
AbsUnder(a, j, id, n) ==
    \/ j = id
    \/ /\ n > 0
       /\ AbsNode(a, j).parent # None
       /\ AbsUnder(a, AbsNode(a, j).parent[1], id, n - 1)

AbsSubtree(a, id) ==
    {j \in 0..(Len(a.nodes) - 1) : AbsUnder(a, j, id, Len(a.nodes))}

AbsAdd(a) ==
    LET id == Len(a.nodes)
    IN  [a EXCEPT
           !.nodes = Append([@ EXCEPT ![a.cursor + 1].children = Append(@, id)],
                            [parent |-> Some(a.cursor), status |-> "Pending",
                             children |-> <<>>, alive |-> TRUE])]

AbsAscend(a) ==
    IF AbsNode(a, a.cursor).parent = None
      THEN a
      ELSE [a EXCEPT !.cursor = AbsNode(a, a.cursor).parent[1]]

AbsDescend(a, id) == [a EXCEPT !.cursor = id]

AbsComplete(a, id) ==
    [a EXCEPT !.nodes =
        [k \in DOMAIN @ |->
            IF k - 1 \in AbsSubtree(a, id)
              THEN [@[k] EXCEPT !.status = "Complete"] ELSE @[k]]]

AbsDelete(a, id) ==
    [a EXCEPT !.nodes =
        [k \in DOMAIN @ |->
            IF k - 1 \in AbsSubtree(a, id)
              THEN [@[k] EXCEPT !.alive = FALSE]
              ELSE [@[k] EXCEPT !.children =
                       SelectSeq(@, LAMBDA c : c # id)]]]

\* An operation by position: the position-th pending child of the cursor,
\* and nothing at all when there is none
AbsBy(a, f, position) ==
    IF position >= Len(AbsPending(a))
      THEN a
      ELSE LET id == AbsPending(a)[position + 1]
           IN  CASE f = "descend" -> AbsDescend(a, id)
                 [] f = "complete" -> AbsComplete(a, id)
                 [] f = "delete" -> AbsDelete(a, id)

\* Which node each slot of the vector holds once the operation has returned:
\* a task that was there before keeps its node, a task that was added is the
\* node made last
Relabel(a) ==
    [a EXCEPT !.ids =
        [k \in 1..len(tree) |->
            IF \E i \in Indexes(before) : loc[i + 1] = Some(k - 1)
              THEN a.ids[(CHOOSE i \in Indexes(before) :
                             loc[i + 1] = Some(k - 1)) + 1]
              ELSE Len(a.nodes) - 1]]

Alongside(new_abs) == abs' = new_abs /\ UNCHANGED <<held, tui, cli>>

NextRefinement ==
    \/ Add(MaxNodes) /\ Len(abs.nodes) < MaxNodes /\ Alongside(AbsAdd(abs))
    \/ Ascend /\ Alongside(AbsAscend(abs))
    \/ \E position \in Positions :
          ViaNthChild("descend", position)
              /\ Alongside(AbsBy(abs, "descend", position))
    \/ \E position \in Positions :
          ViaNthChild("complete", position)
              /\ Alongside(AbsBy(abs, "complete", position))
    \/ \E position \in Positions :
          ViaNthChild("delete", position)
              /\ Alongside(AbsBy(abs, "delete", position))
    \/ CompleteStep /\ Alongside(abs)
    \/ DeleteSkip /\ Alongside(abs)
    \/ DeleteDescend /\ Alongside(abs)
    \/ DeleteRemove /\ Alongside(abs)
    \/ Return /\ Alongside(Relabel(abs))

SpecRefinement == Init /\ [][NextRefinement]_vars

\* What a caller sees of the arena: the node under the cursor and the nodes
\* of its pending children in order (nothing when the cursor is on no task)
ArenaView ==
    IF valid(tree, tree.ptr)
      THEN Some([cursor |-> abs.ids[tree.ptr + 1],
                 pending |-> [k \in DOMAIN PendingListed(tree) |->
                                 abs.ids[PendingListed(tree)[k] + 1]]])
      ELSE None

AbsView == Some([cursor |-> abs.cursor, pending |-> AbsPending(abs)])

\* C29: run side by side over add, ascend and descend, complete and delete
\* by position, the arena and the identity-keyed tree show after each
\* operation the same cursor node and the same ordered pending children.
C29_Refinement == pc = "idle" => ArenaView = AbsView

\* C23: set_parent, set_name, set_due, complete, remove_child and
\* replace_child are idempotent: on every task that can be built, applying
\* one twice with the same input gives what applying it once gives.
C23_Idempotent ==
    LET t == held.task
    IN  /\ \A p \in ParentInputs :
              set_parent(set_parent(t, p), p) = set_parent(t, p)
        /\ \A n \in NameInputs :
              set_name(set_name(t, n), n) = set_name(t, n)
        /\ \A d \in DueInputs :
              set_due(set_due(t, d), d) = set_due(t, d)
        /\ task_complete(task_complete(t)) = task_complete(t)
        /\ \A i \in ChildInputs :
              remove_child(remove_child(t, i), i) = remove_child(t, i)
        /\ \A old \in ChildInputs, new \in ChildInputs :
              replace_child(replace_child(t, old, new), old, new) =
                  replace_child(t, old, new)

\* remove_child has been applied to a task that listed the index twice.
C23_Witness ==
    /\ held.by = "remove_child"
    /\ Occurrences(held.from.children, held.with[1]) >= 2
    /\ held.task # held.from

---------------------------------------------------------------------------
\* delete run to its return, for a caller that waits for it: the loop of
\* DeleteSkip, DeleteDescend and DeleteRemove on a work list.  Yields
\* Ok(tree), the panic the loop runs into, or Hang when the loop does not end.

Hang == [kind |-> "Hang", val |-> 0]

RECURSIVE delete_loop(_, _, _)
delete_loop(tr, st, n) ==
    IF st = <<>>
      THEN Ok(tr)
      ELSE IF n = 0
             THEN Hang
             ELSE
    LET idx == st[Len(st)]
        rest == SubSeq(st, 1, Len(st) - 1)
    IN  IF ~valid(tr, idx)
          THEN delete_loop(tr, rest, n - 1)
          ELSE IF task(tr, idx).children # <<>>
                 THEN delete_loop(tr, st \o task(tr, idx).children, n - 1)
                 ELSE LET r == delete_leaf(tr, idx)
                      IN  IF r.kind = "Panic"
                            THEN r
                            ELSE delete_loop(r.val, rest, n - 1)

delete(tr, idx) == IF idx = 0 THEN Ok(tr) ELSE delete_loop(tr, <<idx>>, MaxLoop)

---------------------------------------------------------------------------
\* The terminal UI (tui.rs).  Two threads send on clones of one channel; the
\* thread that called run owns the tree and takes the events one by one, in
\* normal_state or, after `i`, in input_state, which reads the same receiver.

\* The keys of the model: the arrows, the characters normal_state knows,
\* Enter (Char('\n')), Esc, Delete and Backspace
Keys ==
    {"Left", "Right", "Up", "Down", "~", "d", "i", "q", "Enter", "Esc",
     "Delete", "Backspace"}

\* The keys that are Key::Char(c) with c other than '\n'
Chars == {"~", "d", "i", "q"}

KeyEvent(key, serial) == [kind |-> "Key", key |-> key, serial |-> serial]
ResizeEvent == [kind |-> "Resize", key |-> "", serial |-> 0]

\* Sender::send
send(queue, event) == Append(queue, event)

\* A receiver that hands out the newest event
recv_newest(queue) ==
    [event |-> queue[Len(queue)], rest |-> SubSeq(queue, 1, Len(queue) - 1)]

\* Receiver::recv on a channel that is not empty (the iterator of `for
\* received in rx` blocks on an empty one)
recv(queue) == [event |-> Head(queue), rest |-> Tail(queue)]

\* The String of the characters typed
RECURSIVE String(_)
String(cs) == IF cs = <<>> THEN "" ELSE Head(cs) \o String(Tail(cs))

\* String::remove(index), index in range
string_remove(cs, index) == SubSeq(cs, 1, index) \o SubSeq(cs, index + 2, Len(cs))

\* A rebuild that leaves the selection where it was
rebuild_keep_index(list, tr) ==
    [index |-> list.index,
     title |-> tr.tasks[tr.ptr + 1].name,
     items |-> [k \in DOMAIN pending_children(tr) |->
                   pending_children(tr)[k].name]]

\* List::rebuild, on a tree whose cursor is on a task
rebuild(list, tr) ==
    LET items == [k \in DOMAIN pending_children(tr) |->
                     pending_children(tr)[k].name]
        length == Len(items)
    IN  [index |-> IF length = 0 THEN length
                   ELSE IF list.index >= length THEN length - 1
                   ELSE list.index,
         title |-> current(tr).name,
         items |-> items]

\* List::increment
increment(list) ==
    IF 0 < Len(list.items) /\ list.index < Len(list.items) - 1
      THEN [list EXCEPT !.index = @ + 1] ELSE list

\* List::decrement
decrement(list) == IF list.index > 0 THEN [list EXCEPT !.index = @ - 1] ELSE list

\* What handling one key comes to: the consumer goes on, panics, or hangs
Alive(t, tr) == [tui |-> t, tree |-> tr, outcome |-> "idle"]
Died(t, tr) == [tui |-> t, tree |-> tr, outcome |-> "panic"]
Hung(t, tr) == [tui |-> t, tree |-> tr, outcome |-> "hang"]

\* app.list.rebuild(&tree) after the tree changed (current() indexes the
\* vector with ptr)
Rebuilt(t, tr) ==
    IF current_panics(tr)
      THEN Died(t, tr)
      ELSE Alive([t EXCEPT !.list = rebuild(@, tr)], tr)

\* mutate_state in State::Mutate(action)
mutate_state(t, tr) ==
    CASE t.state = "Mutate(AddTask)" ->
           IF current_panics(tr)
             THEN Died(t, tr)
             ELSE Alive([t EXCEPT !.state = "Normal"],
                        add(tr, set_name(TaskNew, String(t.buffer))))
      [] t.state = "Mutate(DeleteTask)" ->
           LET r == nth_child(tr, t.list.index)
           IN  IF r.kind # "Ok"
                 THEN Died(t, tr)                          \* unreachable!()
                 ELSE LET d == delete(tr, r.val)
                      IN  IF d.kind = "Ok" THEN Alive(t, d.val)
                          ELSE IF d.kind = "Panic" THEN Died(t, tr)
                          ELSE Hung(t, tr)
      [] OTHER -> Died(t, tr)                              \* unreachable!()

\* One key in normal_state
normal_state(t, tr, key) ==
    CASE key = "Left" ->
           LET r == ascend_from(tr)
           IN  IF r.kind = "Panic" THEN Died(t, tr) ELSE Rebuilt(t, r.val)
      [] key = "~" -> Rebuilt(t, set_ptr(tr, 0))
      [] key = "Right" ->
           LET r == nth_child(tr, t.list.index)
           IN  IF r.kind = "Panic" THEN Died(t, tr)
               ELSE IF r.kind = "Err" THEN Alive(t, tr)         \* continue
               ELSE Rebuilt(t, descend(tr, r.val))
      [] key = "Up" -> Alive([t EXCEPT !.list = decrement(@)], tr)
      [] key = "Down" -> Alive([t EXCEPT !.list = increment(@)], tr)
      [] key = "d" ->
           LET m == mutate_state([t EXCEPT !.state = "Mutate(DeleteTask)"], tr)
           IN  IF m.outcome = "idle" THEN Rebuilt(m.tui, m.tree) ELSE m
      [] key = "i" -> Alive([t EXCEPT !.state = "Input", !.loop = "input"], tr)
      [] key = "q" -> Alive([t EXCEPT !.state = "Exit", !.loop = "returned"], tr)
      [] OTHER -> Alive(t, tr)

\* One key in input_state
input_state(t, tr, key) ==
    LET length == Len(t.buffer)
    IN  CASE key = "Esc" ->
               Alive([t EXCEPT !.buffer = <<>>, !.state = "Exit",
                               !.loop = "normal"], tr)
          [] key = "Delete" ->
               IF t.cursor_offset > 0
                 THEN IF t.cursor_offset > length
                        THEN Died(t, tr)       \* length - cursor_offset < 0
                        ELSE Alive([t EXCEPT
                                      !.buffer = string_remove(
                                          @, length - t.cursor_offset),
                                      !.cursor_offset = @ - 1], tr)
                 ELSE Alive(t, tr)
          [] key = "Backspace" ->
               IF t.cursor_offset < length
                 THEN Alive([t EXCEPT
                               !.buffer = string_remove(
                                   @, length - t.cursor_offset - 1)], tr)
                 ELSE Alive(t, tr)
          [] key = "Right" ->
               IF t.cursor_offset > 0
                 THEN Alive([t EXCEPT !.cursor_offset = @ - 1], tr)
                 ELSE Alive(t, tr)
          [] key = "Left" ->
               IF t.cursor_offset < length
                 THEN Alive([t EXCEPT !.cursor_offset = @ + 1], tr)
                 ELSE Alive(t, tr)
          [] key = "Enter" ->
               LET m == mutate_state(
                            IF t.state = "Input"
                              THEN [t EXCEPT !.state = "Mutate(AddTask)"]
                              ELSE t, tr)
               IN  IF m.outcome # "idle"
                     THEN m
                     ELSE LET b == Rebuilt([m.tui EXCEPT !.buffer = <<>>],
                                           m.tree)
                          IN  IF b.outcome = "idle" /\ b.tui.state = "Normal"
                                THEN [b EXCEPT !.tui.loop = "normal"]
                                ELSE b
          [] key \in Chars -> Alive([t EXCEPT !.buffer = Append(@, key)], tr)
          [] OTHER -> Alive(t, tr)

\* The threads are there while run has neither returned nor panicked
Running == pc = "idle" /\ tui.loop # "returned"

\* The keyboard thread: txc.send(Event::Key(key))
KeyboardSend ==
    /\ Running
    /\ tui.sent < MaxKeys
    /\ Len(tui.queue) < MaxQueue
    /\ \E key \in Keys :
          tui' = [tui EXCEPT !.queue = send(@, KeyEvent(key, tui.sent + 1)),
                             !.sent = @ + 1]
    /\ UNCHANGED <<treevars, held, abs, cli>>

\* The resize thread, on a terminal whose size changed: tx.send(Event::Resize)
ResizeSend ==
    /\ Running
    /\ tui.resizes < MaxResizes
    /\ Len(tui.queue) < MaxQueue
    /\ tui' = [tui EXCEPT !.queue = send(@, ResizeEvent), !.resizes = @ + 1]
    /\ UNCHANGED <<treevars, held, abs, cli>>

\* The consumer takes Event::Resize: redraw
ConsumeResize ==
    /\ Running
    /\ tui.queue # <<>>
    /\ recv(tui.queue).event.kind = "Resize"
    /\ tui' = [tui EXCEPT !.queue = recv(tui.queue).rest]
    /\ UNCHANGED <<treevars, held, abs, cli>>

\* The consumer takes Event::Key(key) in the loop it is in
KeyTaken ==
    /\ Running
    /\ tui.queue # <<>>
    /\ recv(tui.queue).event.kind = "Key"

\* The App once the key is off the channel
Taken ==
    [tui EXCEPT !.queue = recv(tui.queue).rest,
                !.log = Append(@, recv(tui.queue).event.serial)]

\* The handler has run to the end of the match
Handled(h) ==
    /\ len(h.tree) <= MaxTasksTui
    /\ Len(h.tui.buffer) <= MaxBuffer
    /\ tui' = h.tui
    /\ tree' = h.tree
    /\ pc' = h.outcome
    /\ UNCHANGED <<stack, cptr, op, arg, before, loc, held, abs, cli>>

ConsumeNormal ==
    /\ KeyTaken
    /\ tui.loop = "normal"
    /\ Handled(normal_state(Taken, tree, recv(tui.queue).event.key))

ConsumeInput ==
    /\ KeyTaken
    /\ tui.loop = "input"
    /\ Handled(input_state(Taken, tree, recv(tui.queue).event.key))

NextTui ==
    \/ KeyboardSend
    \/ ResizeSend
    \/ ConsumeResize
    \/ ConsumeNormal
    \/ ConsumeInput

SpecTui == Init /\ [][NextTui]_vars

\* The serial numbers of the keys waiting in the channel, in order
Waiting ==
    LET keys == SelectSeq(tui.queue, LAMBDA e : e.kind = "Key")
    IN  [k \in DOMAIN keys |-> keys[k].serial]

\* C22: the keys taken and the keys waiting are, in this order, exactly the
\* keys the keyboard thread sent, so keys are applied in the order sent, none
\* lost and none twice; each step of the consumer takes one event; and a
\* step in which a thread sends leaves the tree as it is.
C22_SingleQueue ==
    /\ [](tui.log \o Waiting = [k \in 1..tui.sent |-> k])
    /\ [][/\ tree' # tree => Len(tui'.log) = Len(tui.log) + 1
          /\ Len(tui'.log) \in {Len(tui.log), Len(tui.log) + 1}
          /\ (tui'.sent # tui.sent \/ tui'.resizes # tui.resizes) =>
                 tree' = tree]_vars

\* Three keys have been applied, they built a tree of two tasks and more,
\* and a size change waits in the channel ahead of the next key.
C22_Witness ==
    /\ Len(tui.log) >= 3
    /\ len(tree) > 1
    /\ Len(tui.queue) = 2
    /\ tui.queue[1].kind = "Resize"
    /\ tui.queue[2].kind = "Key"

\* C31: between operations, with the cursor on a task, nth_child(k) succeeds
\* for exactly the positions k below the number of tasks pending_children
\* yields, the index it returns is the one whose task pending_children
\* yields at k, and it panics for no position.
C31_ListingResolver ==
    (AtRest /\ valid(tree, tree.ptr)) =>
        LET listed == PendingListed(tree)
        IN  \A k \in 0..Len(current(tree).children) :
               /\ nth_child(tree, k).kind # "Panic"
               /\ nth_child(tree, k).kind = "Ok" <=> k < Len(listed)
               /\ k < Len(listed) => nth_child(tree, k).val = listed[k + 1]

\* C32: from the call of ascend, descend or complete to its return (or its
\* panic) the vector has the tasks it had at the call, each with the parent
\* field and the children list it had.
C32_StructureFrame ==
    op \in {"ascend", "descend", "complete"} =>
        /\ len(tree) = len(before)
        /\ \A i \in Indexes(before) :
              /\ task(tree, i).parent = task(before, i).parent
              /\ task(tree, i).children = task(before, i).children

\* complete has returned after marking a task that has children.
C32_Witness ==
    /\ pc = "done"
    /\ op = "complete"
    /\ valid(before, arg)
    /\ task(before, arg).children # <<>>
    /\ tree # before

\* C33: when complete returns, every task that is neither idx nor below idx
\* in the tree it was called on has the status it had, and the cursor is
\* where it was.
C33_CompleteFrame ==
    (pc = "done" /\ op = "complete") =>
        /\ tree.ptr = before.ptr
        /\ \A i \in Indexes(before) \ Subtree(before, arg) :
              task(tree, i).status = task(before, i).status

\* complete has returned after marking a task while another task, outside
\* its subtree, is Pending.
C33_Witness ==
    /\ pc = "done"
    /\ op = "complete"
    /\ tree # before
    /\ \E i \in Indexes(before) \ (Subtree(before, arg) \cup {0}) :
          ~is_complete(task(tree, i))

\* The vector of a relocation step after the detach and the swap_remove,
\* before the moved task's parent is repaired
Detached ==
    LET p == task(tree, top).parent[1]
        tr1 == replace_task(tree, p, remove_child(task(tree, p), top))
    IN  [tr1 EXCEPT !.tasks = swap_remove(@, top)]

\* The parent the moved task names
MovedParent == task(Detached, top).parent[1]

\* The children list of that parent with every entry `former` rewritten to
\* the freed slot
RewrittenFrom(former) ==
    [k \in DOMAIN task(Detached, MovedParent).children |->
        IF task(Detached, MovedParent).children[k] = former
          THEN top ELSE task(Detached, MovedParent).children[k]]

\* C34 as stated: in a removal step of delete that relocates a task, the
\* entries rewritten to the freed slot in the children list of the moved
\* task's parent are those equal to the length the vector had before the
\* removal.
C34_FormerIndexLengthBefore ==
    [][RelocationStep =>
          task(tree', MovedParent).children = RewrittenFrom(len(tree))]_vars

\* C34 amended: the entries rewritten are those equal to the length the
\* vector has after the removal, one less than it had before: the last
\* position, where the moved task was.
C34_FormerIndexLastPosition ==
    [][RelocationStep =>
          task(tree', MovedParent).children = RewrittenFrom(len(tree) - 1)]_vars

\* delete has moved a task and its parent lists it at its new index.
C34_Witness ==
    /\ op = "delete"
    /\ \E i \in Indexes(before) :
          /\ loc[i + 1] \notin {None, Some(i)}
          /\ LET j == loc[i + 1][1]
             IN  /\ valid(tree, j)
                 /\ task(tree, j).parent # None
                 /\ valid(tree, task(tree, j).parent[1])
                 /\ is_child(task(tree, task(tree, j).parent[1]), j)

\* The consumer is about to take this key in normal_state
NextKeyNormal(key) ==
    /\ KeyTaken
    /\ tui.loop = "normal"
    /\ recv(tui.queue).event.key = key

\* C35: whenever normal_state is about to handle the key d, nth_child of the
\* selected list position yields the index of a pending child of the
\* cursor, so mutate_state does not reach unreachable!().
C35_DeleteKeyResolves ==
    NextKeyNormal("d") =>
        LET r == nth_child(tree, tui.list.index)
        IN  /\ r.kind = "Ok"
            /\ is_child(current(tree), r.val)
            /\ ~is_complete(task(tree, r.val))

\* C36: in every state of the terminal UI, through any number of input
\* sessions, cursor_offset is at most the length of the input buffer.
C36_CursorOffsetInBuffer == tui.cursor_offset <= Len(tui.buffer)

\* The list shows the cursor's task and its pending children
InSync ==
    /\ valid(tree, tree.ptr)
    /\ tui.list.items = [k \in DOMAIN pending_children(tree) |->
                            pending_children(tree)[k].name]
    /\ tui.list.title = current(tree).name
    /\ IF tui.list.items = <<>>
         THEN tui.list.index = 0
         ELSE tui.list.index < Len(tui.list.items)

\* C37: whenever normal_state has handled a key and waits for the next event,
\* the list is in sync with the tree; and a step that takes a Resize event
\* leaves the tree, the list and the input buffer as they were.
C37_ListInSync ==
    /\ []((Running /\ tui.loop = "normal") => InSync)
    /\ [][(Len(tui'.queue) < Len(tui.queue) /\ tui'.log = tui.log) =>
             /\ tree' = tree
             /\ tui'.list = tui.list
             /\ tui'.buffer = tui.buffer]_vars

\* The d key has removed a task of a list of two, and the list shows the
\* one that is left, selected.
C37_Witness ==
    /\ Running
    /\ tui.loop = "normal"
    /\ tui.state = "Mutate(DeleteTask)"
    /\ tui.list.items # <<>>
    /\ tui.list.index = Len(tui.list.items) - 1
    /\ len(tree) = 2
    /\ Len(tui.log) >= 6

---------------------------------------------------------------------------
\* The line-based CLI (cli.rs): list numbers the pending children of the
\* cursor from 1, and complete, delete and descend read a number and hand
\* nth_child the number less one.

\* usize subtraction: a debug build panics on underflow, a release build
\* wraps around
usize_sub(a, b) ==
    IF a >= b
      THEN {Ok(a - b)}
      ELSE {Panicked(a), Ok((a - b) % (2 ^ UsizeBits))}

\* index_from_stdin on a line that parses as the unsigned number p
index_from_stdin(p) == usize_sub(p, 1)

\* The numbers list prints, in order, with the index of the task each is
\* printed next to
listed(tr) == PendingListed(tr)

Typed == 0..MaxTyped

\* What the CLI did with the command and number typed last
Said(command, p, report) ==
    /\ cli' = [command |-> command, typed |-> p, report |-> report]
    /\ UNCHANGED <<held, abs, tui>>

\* verify_index_and(f) on the number p
VerifyIndexAnd(f, p) ==
    /\ pc = "idle"
    /\ \E idx \in index_from_stdin(p) :
          IF idx.kind = "Panic"
            THEN Abort("index_from_stdin", p) /\ Said(f, p, "panic")
            ELSE LET nth == nth_child(tree, idx.val)
                 IN  CASE nth.kind = "Panic" ->
                            Abort("nth_child", p) /\ Said(f, p, "panic")
                       [] nth.kind = "Err" ->
                            Finish("nth_child", 0, tree)
                                /\ Said(f, p, "InvalidIndex")
                       [] nth.kind = "Ok" /\ f = "descend" ->
                            Descend(nth.val) /\ Said(f, p, "none")
                       [] nth.kind = "Ok" /\ f = "complete" ->
                            Complete(nth.val) /\ Said(f, p, "none")
                       [] nth.kind = "Ok" /\ f = "delete" ->
                            Delete(nth.val) /\ Said(f, p, "none")

Quiet == UNCHANGED <<held, abs, tui, cli>>

NextCli ==
    \/ Add(MaxTasksCli) /\ Said("add", 0, "none")
    \/ Ascend /\ Said("ascend", 0, "none")
    \/ \E p \in Typed : VerifyIndexAnd("descend", p)
    \/ \E p \in Typed : VerifyIndexAnd("complete", p)
    \/ \E p \in Typed : VerifyIndexAnd("delete", p)
    \/ CompleteStep /\ Quiet
    \/ DeleteSkip /\ Quiet
    \/ DeleteDescend /\ Quiet
    \/ DeleteRemove /\ Quiet
    \/ Return /\ Quiet

SpecCli == Init /\ [][NextCli]_vars

\* C38: no number typed makes the conversion to an index abort; a number
\* that list printed next to a task passes the index of that task to the
\* command; any other number leaves the tree as it was and is reported as
\* an invalid index.
C38_TypedPosition ==
    /\ ~(pc = "panic" /\ op = "index_from_stdin")
    /\ ( /\ cli.command \in {"descend", "complete", "delete"}
         /\ pc \notin {"idle", "panic"} ) =>
          IF cli.typed \in 1..Len(listed(before))
            THEN /\ op = cli.command
                 /\ arg = listed(before)[cli.typed]
                 /\ cli.report = "none"
            ELSE /\ tree = before
                 /\ cli.report = "InvalidIndex"
====
